---- MODULE Spec2Model ----
(***************************************************************************)
(* A model of content_uploader.py: the script that matches build outputs   *)
(* under DIST_DIR against a catalog of ArtifactConfig rules, uploads each  *)
(* match to CAS through the casuploader client and writes the digests.     *)
(*                                                                         *)
(* Strings that the code takes apart or puts together (file names, glob    *)
(* patterns, display names) are sequences of tokens; a path is a sequence  *)
(* of components, each a sequence of tokens.  "*" is the glob wildcard.     *)
(***************************************************************************)
EXTENDS Integers, Sequences, FiniteSets, TLC

\* Bound of the model: the entries of the static catalog and the names given
\* on the command line, together.
MaxEntries == 2

----
\* Program constants.

CHUNKED_ARTIFACT_NAME_PREFIX == <<"_chunked_">>
CHUNKED_DIR_ARTIFACT_NAME_PREFIX == <<"_chunked_", "dir_">>

ArtifactConfig(source_path, unzip, chunk, chunk_fallback) ==
    [source_path |-> source_path, unzip |-> unzip, chunk |-> chunk,
     chunk_fallback |-> chunk_fallback]

CasInfo(cas_instance, cas_service, client_path, client_version) ==
    [cas_instance |-> cas_instance, cas_service |-> cas_service,
     client_path |-> client_path, client_version |-> client_version]

\* An UploadResult; `none` marks the None that _upload returns on failure.
UploadResult(digest, details) ==
    [none |-> FALSE, digest |-> digest, content_details |-> details]

\* Glob patterns of the catalog: one path component each.
PatTests == << <<"*", "-tests-", "*", "zip">> >>
PatImg == << <<"*", "-img-", "*", "zip">> >>
PatApk == << <<"*", ".", "apk">> >>
PatProguard == << <<"*", "-proguard-dict-", "*", ".", "zip">> >>

\* The rules a catalog is drawn from: the shapes of ARTIFACTS' entries
\* ('*-tests-*zip' unzipped, '*.apk' plain, '*-img-*zip' chunked with
\* fallback) and a chunked rule without fallback.
RuleSet ==
    { ArtifactConfig(PatTests, TRUE, FALSE, FALSE),
      ArtifactConfig(PatApk, FALSE, FALSE, FALSE),
      ArtifactConfig(PatImg, TRUE, TRUE, TRUE),
      ArtifactConfig(PatImg, FALSE, TRUE, FALSE) }

Catalogs == UNION { [1..n -> RuleSet] : n \in 0..MaxEntries }

\* EXPERIMENT_ARTIFACT_CONFIGS: one object per key, shared by every use.
ExperimentKeys == {"device_image_proguard_dict"}
EXPERIMENT_ARTIFACT_CONFIGS ==
    [k \in ExperimentKeys |-> ArtifactConfig(PatProguard, FALSE, TRUE, TRUE)]

\* Names given on the command line.
ArgNames == ExperimentKeys \cup {"bogus"}
ArgLists == UNION { [1..n -> ArgNames] : n \in 0..MaxEntries }

\* Environment.
EnvKeys == {"DIST_DIR", "RBE_instance", "RBE_service"}
DistDirValue == << <<"dist">> >>
EnvValue(k) == IF k = "DIST_DIR" THEN DistDirValue ELSE << <<k>> >>
Environments == [EnvKeys -> {"unset", "empty", "set"}]

\* Files below the distribution directory, as paths relative to it.
ImgName == <<"a", "-tests-", "b", "-img-", "1", ".", "zip">>
ProguardName == <<"a", "-proguard-dict-", "1", ".", "zip">>
FileImg1 == << <<"d1">>, ImgName >>
FileImg2 == << <<"d2">>, ImgName >>
FileProguard == << ProguardName >>
FileChunkedImg == << CHUNKED_ARTIFACT_NAME_PREFIX \o ImgName >>
DistContents ==
    { {FileImg1, FileProguard}, {FileImg1, FileImg2}, {FileImg1, FileChunkedImg} }

\* What the client's -version probe can give: a version that parses, or a
\* failed run or an output without a version.
ProbedVersions == { <<0, 9>>, <<1, 0>> }
Probes == { [ok |-> FALSE, version |-> <<0, 0>>] }
          \cup { [ok |-> TRUE, version |-> v] : v \in ProbedVersions }

----
\* Pure helpers.

\* fnmatch of one path component against a pattern component.
RECURSIVE FnMatch(_, _)
FnMatch(pat, s) ==
    IF pat = <<>> THEN s = <<>>
    ELSE IF Head(pat) = "*"
         THEN FnMatch(Tail(pat), s) \/ (s # <<>> /\ FnMatch(pat, Tail(s)))
         ELSE s # <<>> /\ Head(s) = Head(pat) /\ FnMatch(Tail(pat), Tail(s))

\* The last n components of a path.
LastN(p, n) == SubSeq(p, Len(p) - n + 1, Len(p))

\* Whether the file at r below dist_dir matches '**/' + source_path: '**'
\* stands for any number of directories.
GlobMatch(r, source_path) ==
    /\ Len(r) >= Len(source_path)
    /\ \A i \in 1..Len(source_path) :
          FnMatch(source_path[i], LastN(r, Len(source_path))[i])

\* A glob that gives the pattern back when nothing matches it.
Glob_LiteralWhenEmpty(dir_files, dir, source_path) ==
    IF \E r \in dir_files : GlobMatch(r, source_path)
    THEN { dir \o r : r \in { r \in dir_files : GlobMatch(r, source_path) } }
    ELSE { dir \o source_path }

\* glob.glob(dist_dir + '/**/' + source_path, recursive=True) over the files
\* dir_files below dir.
Glob(dir_files, dir, source_path) ==
    { dir \o r : r \in { r \in dir_files : GlobMatch(r, source_path) } }

\* A basename that keeps the directory the file is in.
basename_WithParent(f) == f[Len(f) - 1] \o f[Len(f)]

basename(f) == f[Len(f)]

_artifact_name(base, chunk, unzip) ==
    IF ~chunk THEN base
    ELSE IF unzip THEN CHUNKED_DIR_ARTIFACT_NAME_PREFIX \o base
    ELSE CHUNKED_ARTIFACT_NAME_PREFIX \o base

\* Python's tuple comparison a >= b on (major, minor) pairs.
TupleGE(a, b) == a[1] > b[1] \/ (a[1] = b[1] /\ a[2] >= b[2])

InSeq(x, s) == \E i \in 1..Len(s) : s[i] = x

----
\* Functions of the script.

\* A lookup that never raises.
_get_env_var_Unchecked(env, key, check) ==
    [raised |-> FALSE,
     value |-> IF env[key] = "set" THEN EnvValue(key) ELSE <<>>]

\* os.environ.get(key) followed by the `check and not value` test.
_get_env_var(env, key, check) ==
    [raised |-> check /\ env[key] \in {"unset", "empty"},
     value |-> IF env[key] = "set" THEN EnvValue(key) ELSE <<>>]

\* The object of experiment key k: one heap cell after those of ARTIFACTS.
ExperimentKeySeq == <<"device_image_proguard_dict">>
ExperimentRef(n_static, k) ==
    n_static + (CHOOSE i \in 1..Len(ExperimentKeySeq) : ExperimentKeySeq[i] = k)

\* A parse that gives up at the first invalid name.
RECURSIVE _parse_additional_artifacts_StopsAtInvalid(_, _)
_parse_additional_artifacts_StopsAtInvalid(n_static, names) ==
    IF names = <<>> THEN <<>>
    ELSE IF Head(names) \notin DOMAIN EXPERIMENT_ARTIFACT_CONFIGS
         THEN <<>>
         ELSE <<ExperimentRef(n_static, Head(names))>>
                 \o _parse_additional_artifacts_StopsAtInvalid(n_static, Tail(names))

\* The references to the configs named by `names`, invalid names dropped.
RECURSIVE _parse_additional_artifacts(_, _)
_parse_additional_artifacts(n_static, names) ==
    IF names = <<>> THEN <<>>
    ELSE IF Head(names) \notin DOMAIN EXPERIMENT_ARTIFACT_CONFIGS
         THEN _parse_additional_artifacts(n_static, Tail(names))
         ELSE <<ExperimentRef(n_static, Head(names))>>
                 \o _parse_additional_artifacts(n_static, Tail(names))

\* The version of the client, given what its -version probe gave.
_get_client_version(probe) == IF probe.ok THEN probe.version ELSE <<0, 0>>

_path_for_artifact(artifact) ==
    IF artifact.unzip THEN "-zip-path"
    ELSE IF artifact.chunk THEN "-file-path"
    ELSE "-dir-path"

\* A gate that opens for every version the probe could parse.
DumpFileDetails_AnyParsed(info) == info.client_version # <<0, 0>>

\* `-dump-file-details` is only passed to a client of version 1.0 or later.
DumpFileDetails(info) == TupleGE(info.client_version, <<1, 0>>)

\* The command line _upload builds for the client.
Cmd(info, artifact) ==
    [client |-> info.client_path,
     path_flag |-> _path_for_artifact(artifact),
     path |-> artifact.source_path,
     chunk |-> artifact.chunk,
     dump_file_details |-> DumpFileDetails(info)]

\* What the client can do with a command: how it exits, the digest file it
\* leaves (empty, or the digest, which is a function of the uploaded content
\* and its mode) and the details file it leaves when it exits 0 (records, or
\* text that is not JSON, or an empty list).  A client that fails may have
\* written its digest file already; what it left of the details is not read.
DigestOf(cmd) == <<"digest", cmd.path, cmd.path_flag, cmd.chunk>>
ClientOutcomes(cmd) ==
    { [exit |-> e, digest |-> d, details |-> "none"] :
        e \in {"nonzero", "timeout"}, d \in {<<>>, DigestOf(cmd)} }
    \cup { [exit |-> "zero", digest |-> g, details |-> d] :
             g \in {<<>>, DigestOf(cmd)},
             d \in IF cmd.dump_file_details
                   THEN {"records", "unparsable", "empty"} ELSE {"none"} }

\* The client uploaded the artifact and said so.
ClientSucceeded(o) == o.exit = "zero" /\ o.digest # <<>>

NoResult == [none |-> TRUE, digest |-> <<>>, content_details |-> <<>>]

\* An _upload that does not look at how the client exited.
_upload_IgnoringExit(info, artifact, o) ==
    IF o.digest = <<>> THEN NoResult
    ELSE UploadResult(o.digest,
                      IF DumpFileDetails(info) /\ o.details = "records"
                      THEN <<"records">> ELSE <<>>)

\* An _upload that keeps only the head of the digest.
_upload_CutDigest(info, artifact, o) ==
    IF o.exit # "zero" THEN NoResult
    ELSE IF o.digest = <<>> THEN NoResult
    ELSE UploadResult(SubSeq(o.digest, 1, 1),
                      IF DumpFileDetails(info) /\ o.details = "records"
                      THEN <<"records">> ELSE <<>>)

\* An _upload that does not give None for an empty digest.
_upload_KeepingEmptyDigest(info, artifact, o) ==
    IF o.exit # "zero" THEN NoResult
    ELSE UploadResult(o.digest,
                      IF DumpFileDetails(info) /\ o.details = "records"
                      THEN <<"records">> ELSE <<>>)

\* An _upload that gives None when the details do not parse.
_upload_FailingOnBadDetails(info, artifact, o) ==
    IF o.exit # "zero" THEN NoResult
    ELSE IF o.digest = <<>> THEN NoResult
    ELSE IF DumpFileDetails(info) /\ o.details = "unparsable" THEN NoResult
    ELSE UploadResult(o.digest,
                      IF DumpFileDetails(info) /\ o.details = "records"
                      THEN <<"records">> ELSE <<>>)

\* _upload after the client has run with outcome o: None, or an UploadResult.
_upload(info, artifact, o) ==
    IF o.exit # "zero" THEN NoResult
    ELSE IF o.digest = <<>> THEN NoResult
    ELSE UploadResult(o.digest,
                      IF DumpFileDetails(info) /\ o.details = "records"
                      THEN <<"records">> ELSE <<>>)

\* A test that looks at skip_files only.
Skipped_OnlySkipFiles(name, digests, skips) == InSeq(name, skips)

\* A test that looks at file_digests only.
Skipped_OnlyDigests(name, digests, skips) == name \in DOMAIN digests

\* A test that never skips.
Skipped_Never(name, digests, skips) == FALSE

\* '.'.join(map(str, client_version))
VersionString(v) == ToString(v[1]) \o "." \o ToString(v[2])

\* Whether the loop passes over a match without uploading it.
Skipped(name, digests, skips) == name \in DOMAIN digests \/ InSeq(name, skips)

\* A condition without its `or artifact.unzip`.
AddsSkip_WithoutUnzip(artifact) == artifact.chunk /\ ~artifact.chunk_fallback

\* A condition that leaves out the rules with both chunk_fallback and unzip.
AddsSkip_NotFallbackAndUnzip(artifact) ==
    artifact.chunk /\ ~(artifact.chunk_fallback /\ artifact.unzip)

\* Whether a successful upload puts the basename on skip_files.
AddsSkip(artifact) ==
    artifact.chunk /\ (~artifact.chunk_fallback \/ artifact.unzip)

\* A fallback that is always the copy without unzip.
FallbackOf_AlwaysZipped(artifact) == [artifact EXCEPT !.unzip = FALSE]

\* A fallback that is always the unchunked copy.
FallbackOf_AlwaysUnchunked(artifact) == [artifact EXCEPT !.chunk = FALSE]

\* The copy _add_fallback_artifacts appends for a chunked rule with fallback.
FallbackOf(artifact) ==
    IF artifact.unzip
    THEN [artifact EXCEPT !.unzip = FALSE]
    ELSE [artifact EXCEPT !.chunk = FALSE]

NeedsFallback(artifact) == artifact.chunk /\ artifact.chunk_fallback

----
VARIABLES
    pc,                   \* where main is
    environ,              \* os.environ, the three variables the script reads
    argv,                 \* the names given with --experiment_artifacts
    files,                \* the files below the distribution directory
    heap,                 \* the ArtifactConfig objects, by reference
    configured,           \* the ArtifactConfig objects as the module built them
    ARTIFACTS,            \* the static catalog: references into heap
    dist_dir,             \* main's dist_dir
    uploader,             \* what _get_prebuilt_uploader returned
    started,              \* the external processes started besides uploads
    wrapper,              \* how the run of the prebuilt content_uploader ended,
                          \*   until main goes on to parse its arguments
    additional_artifacts, \* main's additional_artifacts: references
    cas_info,             \* main's cas_info
    all_artifacts,        \* the working list of _upload_all_artifacts
    origin,               \* per entry of all_artifacts: the entry it is the
                          \*   fallback of, 0 for an entry main passed in
    fb_i,                 \* position of _add_fallback_artifacts' loop
    art_i,                \* position of the loop over all_artifacts
    source_path,          \* the source_path read for the current artifact
    pending,              \* matches of the current artifact not yet visited
    resolved,             \* per artifact visited: the source_path read for it
                          \*   and the files its glob gave
    file_digests,         \* name -> digest
    content_details,      \* list of [artifact, details]
    skip_files,           \* list of basenames
    digests_file,         \* the writes of cas_digests.json, in order
    details_file,         \* the writes of cas_content_details.json, in order
    uploads,              \* the client invocations made for uploads, in order:
                          \*   the rule's position, the display name, the
                          \*   command, whether the client succeeded, and the
                          \*   result _upload returned
    outcome,              \* what the client did in the upload of the last step
    error                 \* the exception that ended main, if any

vars == <<pc, environ, argv, files, heap, configured, ARTIFACTS, dist_dir,
          uploader, started,
          wrapper,
          additional_artifacts, cas_info, all_artifacts, origin, fb_i, art_i,
          source_path, pending, resolved, file_digests, content_details, skip_files,
          digests_file, details_file, uploads, outcome, error>>

inputs == <<environ, argv, files, configured, ARTIFACTS>>
loop_vars == <<all_artifacts, origin, fb_i, art_i, source_path, pending,
               resolved, file_digests, content_details, skip_files, uploads>>
out_vars == <<digests_file, details_file>>

NoCasInfo == CasInfo(<<>>, <<>>, <<>>, <<0, 0>>)
NoOutcome == [exit |-> "none", digest |-> <<>>, details |-> "none"]
EmptyMap == [n \in {} |-> <<>>]

Init ==
    /\ pc = "main"
    /\ environ \in Environments
    /\ argv \in ArgLists
    /\ files \in DistContents
    /\ \E catalog \in Catalogs :
          /\ Len(catalog) + Len(argv) <= MaxEntries
          /\ heap = catalog \o [i \in 1..Len(ExperimentKeySeq) |->
                                    EXPERIMENT_ARTIFACT_CONFIGS[ExperimentKeySeq[i]]]
          /\ ARTIFACTS = [i \in 1..Len(catalog) |-> i]
    /\ configured = heap
    /\ dist_dir = <<>>
    /\ uploader = "unset"
    /\ started = {}
    /\ wrapper = "none"
    /\ additional_artifacts = <<>>
    /\ cas_info = NoCasInfo
    /\ all_artifacts = <<>>
    /\ origin = <<>>
    /\ fb_i = 0
    /\ art_i = 0
    /\ source_path = <<>>
    /\ pending = {}
    /\ resolved = <<>>
    /\ file_digests = EmptyMap
    /\ content_details = <<>>
    /\ skip_files = <<>>
    /\ digests_file = <<>>
    /\ details_file = <<>>
    /\ uploads = <<>>
    /\ outcome = NoOutcome
    /\ error = "none"

\* main, up to the logging setup: DIST_DIR is required.
GetDistDir ==
    /\ pc = "main"
    /\ LET v == _get_env_var(environ, "DIST_DIR", TRUE) IN
          IF v.raised
          THEN /\ pc' = "fatal"
               /\ error' = "env DIST_DIR"
               /\ dist_dir' = dist_dir
          ELSE /\ pc' = "prebuilt"
               /\ error' = error
               /\ dist_dir' = v.value
    /\ UNCHANGED <<inputs, heap, uploader, started, wrapper, additional_artifacts, cas_info,
                   loop_vars, out_vars, outcome>>

\* main: the prebuilt content_uploader is not found.
PrebuiltNotFound ==
    /\ pc = "prebuilt"
    /\ uploader' = "not_found"
    /\ pc' = "parse"
    /\ UNCHANGED <<inputs, heap, dist_dir, wrapper, started, additional_artifacts, cas_info,
                   loop_vars, out_vars, outcome, error>>

\* A run of the prebuilt content_uploader whose exit status is not checked.
PrebuiltRun_ExitUnchecked ==
    /\ pc = "prebuilt"
    /\ uploader' = "found"
    /\ started' = started \cup {"content_uploader"}
    /\ \E r \in {"zero", "nonzero", "timeout", "exception"} :
          /\ wrapper' = r
          /\ pc' = IF r \in {"zero", "nonzero"} THEN "returned" ELSE "parse"
    /\ UNCHANGED <<inputs, heap, dist_dir, additional_artifacts, cas_info,
                   loop_vars, out_vars, outcome, error>>

\* main: the prebuilt content_uploader is found and run; main returns when
\* it exits 0 and goes on when it fails in any way.
PrebuiltRun ==
    /\ pc = "prebuilt"
    /\ uploader' = "found"
    /\ started' = started \cup {"content_uploader"}
    /\ \E r \in {"zero", "nonzero", "timeout", "exception"} :
          /\ wrapper' = r
          /\ pc' = IF r = "zero" THEN "returned" ELSE "parse"
    /\ UNCHANGED <<inputs, heap, dist_dir, additional_artifacts, cas_info,
                   loop_vars, out_vars, outcome, error>>

ParseAdditionalArtifacts ==
    /\ pc = "parse"
    /\ additional_artifacts' = _parse_additional_artifacts(Len(ARTIFACTS), argv)
    /\ wrapper' = "none"
    /\ pc' = "init_cas"
    /\ UNCHANGED <<inputs, heap, dist_dir, uploader, started, cas_info,
                   loop_vars, out_vars, outcome, error>>

\* _init_cas_info: the client is looked up, then the two variables are read,
\* then the client is probed for its version.
InitCasInfo ==
    /\ pc = "init_cas"
    /\ \E client_found \in BOOLEAN, probe \in Probes :
        LET inst == _get_env_var(environ, "RBE_instance", TRUE)
            serv == _get_env_var(environ, "RBE_service", TRUE)
        IN  IF ~client_found
            THEN /\ pc' = "fatal"
                 /\ error' = "no casuploader"
                 /\ UNCHANGED <<cas_info, started>>
            ELSE IF inst.raised
            THEN /\ pc' = "fatal"
                 /\ error' = "env RBE_instance"
                 /\ UNCHANGED <<cas_info, started>>
            ELSE IF serv.raised
            THEN /\ pc' = "fatal"
                 /\ error' = "env RBE_service"
                 /\ UNCHANGED <<cas_info, started>>
            ELSE /\ pc' = "upload_all"
                 /\ error' = error
                 /\ started' = started \cup {"casuploader -version"}
                 /\ cas_info' = CasInfo(inst.value, serv.value, <<"casuploader">>,
                                        _get_client_version(probe))
    /\ UNCHANGED <<inputs, heap, dist_dir, wrapper, uploader, additional_artifacts,
                   loop_vars, out_vars, outcome>>

\* main calls _upload_all_artifacts(cas_info, ARTIFACTS + additional_artifacts).
UploadAllArtifacts ==
    /\ pc = "upload_all"
    /\ all_artifacts' = ARTIFACTS \o additional_artifacts
    /\ origin' = [i \in 1..Len(all_artifacts') |-> 0]
    /\ file_digests' = EmptyMap
    /\ content_details' = <<>>
    /\ skip_files' = <<>>
    /\ fb_i' = 1
    /\ pc' = "add_fallback"
    /\ UNCHANGED <<inputs, heap, dist_dir, wrapper, uploader, started, additional_artifacts,
                   cas_info, art_i, source_path, pending, resolved, uploads,
                   out_vars, outcome, error>>

\* An iteration that puts the fallback right after the rule it copies.
AddFallback_InsertedAfterRule ==
    /\ pc = "add_fallback"
    /\ fb_i <= Len(all_artifacts)
    /\ LET artifact == heap[all_artifacts[fb_i]] IN
          IF NeedsFallback(artifact)
          THEN /\ heap' = Append(heap, FallbackOf(artifact))
               /\ all_artifacts' =
                     SubSeq(all_artifacts, 1, fb_i) \o <<Len(heap) + 1>>
                         \o SubSeq(all_artifacts, fb_i + 1, Len(all_artifacts))
               /\ origin' =
                     SubSeq(origin, 1, fb_i) \o <<fb_i>>
                         \o SubSeq(origin, fb_i + 1, Len(origin))
          ELSE UNCHANGED <<heap, all_artifacts, origin>>
    /\ fb_i' = fb_i + 1
    /\ UNCHANGED <<pc, inputs, dist_dir, wrapper, uploader, started,
                   additional_artifacts, cas_info, art_i, source_path, pending,
                   resolved, file_digests, content_details, skip_files, uploads,
                   out_vars, outcome, error>>

\* One iteration of _add_fallback_artifacts' loop over the growing list.
AddFallback ==
    /\ pc = "add_fallback"
    /\ fb_i <= Len(all_artifacts)
    /\ LET artifact == heap[all_artifacts[fb_i]] IN
          IF NeedsFallback(artifact)
          THEN /\ heap' = Append(heap, FallbackOf(artifact))
               /\ all_artifacts' = Append(all_artifacts, Len(heap) + 1)
               /\ origin' = Append(origin, fb_i)
          ELSE UNCHANGED <<heap, all_artifacts, origin>>
    /\ fb_i' = fb_i + 1
    /\ UNCHANGED <<pc, inputs, dist_dir, wrapper, uploader, started, additional_artifacts,
                   cas_info, art_i, source_path, pending, resolved, file_digests,
                   content_details, skip_files, uploads, out_vars, outcome, error>>

\* _add_fallback_artifacts returns; the loop over all_artifacts begins.
AddFallbackDone ==
    /\ pc = "add_fallback"
    /\ fb_i > Len(all_artifacts)
    /\ art_i' = 1
    /\ pc' = "for_artifact"
    /\ UNCHANGED <<inputs, heap, dist_dir, wrapper, uploader, started, additional_artifacts,
                   cas_info, all_artifacts, origin, fb_i, source_path, pending,
                   resolved, file_digests, content_details, skip_files, uploads,
                   out_vars, outcome, error>>

\* The head of the outer loop: the artifact's source_path is read and globbed.
ForArtifact ==
    /\ pc = "for_artifact"
    /\ art_i <= Len(all_artifacts)
    /\ source_path' = heap[all_artifacts[art_i]].source_path
    /\ pending' = Glob(files, dist_dir, source_path')
    /\ resolved' = Append(resolved,
                          [source_path |-> source_path', matches |-> pending'])
    /\ pc' = "for_file"
    /\ outcome' = NoOutcome
    /\ UNCHANGED <<inputs, heap, dist_dir, wrapper, uploader, started, additional_artifacts,
                   cas_info, all_artifacts, origin, fb_i, art_i, file_digests,
                   content_details, skip_files, uploads, out_vars, error>>

\* An end of the inner loop that writes the two files after every artifact.
EndArtifact_WritingResults ==
    /\ pc = "for_file"
    /\ pending = {}
    /\ art_i' = art_i + 1
    /\ pc' = "for_artifact"
    /\ outcome' = NoOutcome
    /\ digests_file' = Append(digests_file,
            [cas_instance |-> cas_info.cas_instance,
             cas_service |-> cas_info.cas_service,
             client_version |-> VersionString(cas_info.client_version),
             files |-> file_digests])
    /\ details_file' = Append(details_file, content_details)
    /\ UNCHANGED <<inputs, heap, dist_dir, wrapper, uploader, started,
                   additional_artifacts, cas_info, all_artifacts, origin, fb_i,
                   source_path, pending, resolved, file_digests, content_details,
                   skip_files, uploads, error>>

\* The inner loop ends: on to the next artifact.
EndArtifact ==
    /\ pc = "for_file"
    /\ pending = {}
    /\ art_i' = art_i + 1
    /\ pc' = "for_artifact"
    /\ outcome' = NoOutcome
    /\ UNCHANGED <<inputs, heap, dist_dir, wrapper, uploader, started, additional_artifacts,
                   cas_info, all_artifacts, origin, fb_i, source_path, pending,
                   resolved, file_digests, content_details, skip_files, uploads,
                   out_vars, error>>

\* One iteration of the inner loop that ends at `continue`.
SkipFile ==
    /\ pc = "for_file"
    /\ \E f \in pending :
        LET artifact == heap[all_artifacts[art_i]]
            name == _artifact_name(basename(f), artifact.chunk, artifact.unzip)
        IN  /\ Skipped(name, file_digests, skip_files)
            /\ pending' = pending \ {f}
    /\ outcome' = NoOutcome
    /\ UNCHANGED <<pc, inputs, heap, dist_dir, wrapper, uploader, started,
                   additional_artifacts, cas_info, all_artifacts, origin, fb_i,
                   art_i, source_path, resolved, file_digests, content_details,
                   skip_files, uploads, out_vars, error>>

\* One iteration of the inner loop that uploads: the artifact's source_path
\* is overwritten, the client runs, and the result is recorded.
UploadFile ==
    /\ pc = "for_file"
    /\ \E f \in pending :
        LET ref == all_artifacts[art_i]
            base == basename(f)
            name == _artifact_name(base, heap[ref].chunk, heap[ref].unzip)
            artifact == [heap[ref] EXCEPT !.source_path = f]
            cmd == Cmd(cas_info, artifact)
        IN  /\ ~Skipped(name, file_digests, skip_files)
            /\ pending' = pending \ {f}
            /\ heap' = [heap EXCEPT ![ref] = artifact]
            /\ \E o \in ClientOutcomes(cmd) :
                LET result == _upload(cas_info, artifact, o)
                    saved == ~result.none /\ result.digest # <<>>
                IN  /\ outcome' = o
                    /\ uploads' = Append(uploads,
                            [rule |-> art_i, name |-> name, cmd |-> cmd,
                             ok |-> ClientSucceeded(o), result |-> result])
                    /\ file_digests' =
                          IF saved
                          THEN [n \in DOMAIN file_digests \cup {name} |->
                                   IF n = name THEN result.digest
                                   ELSE file_digests[n]]
                          ELSE file_digests
                    /\ skip_files' =
                          IF saved /\ AddsSkip(artifact)
                          THEN Append(skip_files, base) ELSE skip_files
                    /\ content_details' =
                          IF ~result.none /\ result.content_details # <<>>
                          THEN Append(content_details,
                                      [artifact |-> name,
                                       details |-> result.content_details])
                          ELSE content_details
    /\ UNCHANGED <<pc, inputs, dist_dir, wrapper, uploader, started, additional_artifacts,
                   cas_info, all_artifacts, origin, fb_i, art_i, source_path,
                   resolved, out_vars, error>>

\* _output_results: the two files are written after the loop.
OutputResults ==
    /\ pc = "for_artifact"
    /\ art_i > Len(all_artifacts)
    /\ digests_file' = Append(digests_file,
            [cas_instance |-> cas_info.cas_instance,
             cas_service |-> cas_info.cas_service,
             client_version |-> VersionString(cas_info.client_version),
             files |-> file_digests])
    /\ details_file' = Append(details_file, content_details)
    /\ pc' = "done"
    /\ outcome' = NoOutcome
    /\ UNCHANGED <<inputs, heap, dist_dir, wrapper, uploader, started, additional_artifacts,
                   cas_info, loop_vars, error>>

Next ==
    \/ GetDistDir
    \/ PrebuiltNotFound
    \/ PrebuiltRun
    \/ ParseAdditionalArtifacts
    \/ InitCasInfo
    \/ UploadAllArtifacts
    \/ AddFallback
    \/ AddFallbackDone
    \/ ForArtifact
    \/ EndArtifact
    \/ SkipFile
    \/ UploadFile
    \/ OutputResults

Spec == Init /\ [][Next]_vars

----
\* What the properties below speak of.

Attempts == DOMAIN uploads
RuleOf(i) == heap[all_artifacts[uploads[i].rule]]
PathOf(i) == uploads[i].cmd.path
NameAt(r, f) ==
    _artifact_name(basename(f), heap[all_artifacts[r]].chunk,
                   heap[all_artifacts[r]].unzip)
Attempted(r, f) == \E i \in Attempts : uploads[i].rule = r /\ PathOf(i) = f
InLoop == pc \in {"for_artifact", "for_file", "done"}
EntryCount == Len(ARTIFACTS) + Len(additional_artifacts)
ClientFailed(o) ==
    o.exit \in {"nonzero", "timeout"} \/ (o.exit = "zero" /\ o.digest = <<>>)
IsChunkedDirWithFallback(a) == a.unzip /\ a.chunk /\ a.chunk_fallback
NoFileMatches(r) ==
    \A f \in files : ~GlobMatch(f, resolved[r].source_path)
ValidNames == SelectSeq(argv, LAMBDA n : n \in ExperimentKeys)

\* The uploads that succeeded under a rule with chunk and with unzip or
\* without chunk_fallback, and the rank of one among them.
SkipAdders ==
    { i \in Attempts :
        /\ uploads[i].ok
        /\ RuleOf(i).chunk
        /\ ~RuleOf(i).chunk_fallback \/ RuleOf(i).unzip }
SkipRank(i) == Cardinality({ j \in SkipAdders : j <= i })

\* The entry main passed in that an entry of the working list comes from,
\* and the entries appended for one.
RECURSIVE RootOf(_)
RootOf(m) == IF origin[m] = 0 THEN m ELSE RootOf(origin[m])
AppendedFor(k) == { m \in 1..Len(all_artifacts) : m # k /\ RootOf(m) = k }

\* Two entries of the working list give a file the same prefix.
SameMode(a, b) ==
    /\ a.chunk = b.chunk
    /\ a.chunk => (a.unzip = b.unzip)

\* Two distinct paths whose last components are equal.
Homonyms(f, g) == f # g /\ f[Len(f)] = g[Len(g)]

\* Every match of every entry of the working list was uploaded, or was passed
\* over for a name in the manifest or on the skip list.
AllMatchesVisited ==
    /\ Len(resolved) = Len(all_artifacts)
    /\ \A r \in 1..Len(resolved) : \A f \in resolved[r].matches :
          \/ Attempted(r, f)
          \/ NameAt(r, f) \in DOMAIN file_digests
          \/ InSeq(NameAt(r, f), skip_files)

----
\* C1, as stated: at the end of the run the display name of every failed
\* upload attempt is absent from the manifest's files, every match was
\* processed and the manifest was written.
C1_FailedNameAbsentFromManifest ==
    pc = "done" =>
        /\ Len(digests_file) = 1
        /\ AllMatchesVisited
        /\ \A i \in Attempts :
              ~uploads[i].ok => uploads[i].name \notin DOMAIN digests_file[1].files

\* C1, amended: an upload attempt that fails (non-zero exit, timeout, or exit
\* 0 with an empty digest file) returns None and adds no entry: right after
\* it the name is not in file_digests and the loop goes on; at the end the
\* manifest is written once, every match was processed, and a failed
\* attempt's name is in the manifest only if another attempt under the same
\* name succeeded.
C1_FailedUploadAddsNoEntry ==
    /\ ClientFailed(outcome) =>
          /\ uploads # <<>>
          /\ ~uploads[Len(uploads)].ok
          /\ uploads[Len(uploads)].result.none
          /\ uploads[Len(uploads)].name \notin DOMAIN file_digests
          /\ pc = "for_file"
          /\ error = "none"
          /\ ENABLED Next
    /\ pc = "done" =>
          /\ Len(digests_file) = 1
          /\ digests_file[1].files = file_digests
          /\ AllMatchesVisited
          /\ \A i \in Attempts :
                (~uploads[i].ok /\ uploads[i].name \in DOMAIN file_digests)
                    => \E j \in Attempts :
                          j # i /\ uploads[j].ok /\ uploads[j].name = uploads[i].name

\* A run in which an upload failed, a later one succeeded, and the manifest
\* holds the second name and not the first.
C1_Witness ==
    /\ pc = "done"
    /\ \E i, j \in Attempts :
          /\ i < j
          /\ ~uploads[i].ok
          /\ uploads[j].ok
          /\ uploads[i].name \notin DOMAIN digests_file[1].files
          /\ uploads[j].name \in DOMAIN digests_file[1].files

----
\* C2, as stated: after the chunked-directory upload of a file by a rule with
\* unzip, chunk and chunk_fallback succeeds, no rule synthesized from that
\* rule uploads the same file.
C2_NoFallbackUploadAfterChunkedDir ==
    \A i, j \in Attempts :
        ( /\ i < j
          /\ uploads[i].ok
          /\ IsChunkedDirWithFallback(RuleOf(i))
          /\ \/ origin[uploads[j].rule] = uploads[i].rule
             \/ /\ origin[uploads[j].rule] # 0
                /\ origin[origin[uploads[j].rule]] = uploads[i].rule )
        => PathOf(j) # PathOf(i)

\* C2, amended: after that success no later non-chunked upload is made of a
\* file with the same basename, so the plain fallback at the end of the
\* rule's chain never invokes the client for it; the fallback with
\* unzip=false is not suppressed: each of its matches is uploaded unless its
\* '_chunked_' name is already in the manifest or on the skip list.
C2_PlainFallbackSuppressed ==
    /\ \A i, j \in Attempts :
          ( /\ i < j
            /\ uploads[i].ok
            /\ IsChunkedDirWithFallback(RuleOf(i))
            /\ basename(PathOf(j)) = basename(PathOf(i)) )
          => RuleOf(j).chunk
    /\ pc = "done" =>
          \A i \in Attempts : \A r \in 1..Len(all_artifacts) :
              ( /\ uploads[i].ok
                /\ IsChunkedDirWithFallback(RuleOf(i))
                /\ origin[r] = uploads[i].rule )
              => /\ heap[all_artifacts[r]].chunk
                 /\ ~heap[all_artifacts[r]].unzip
                 /\ \A f \in resolved[r].matches :
                       \/ Attempted(r, f)
                       \/ CHUNKED_ARTIFACT_NAME_PREFIX \o basename(f)
                             \in DOMAIN file_digests
                       \/ InSeq(CHUNKED_ARTIFACT_NAME_PREFIX \o basename(f),
                                skip_files)

\* A run in which the chunked-directory upload of a file succeeded, the
\* unzip=false fallback uploaded the same file, and the plain fallback
\* matched it and did not upload it.
C2_Witness ==
    /\ pc = "done"
    /\ \E i, j \in Attempts : \E r \in 1..Len(all_artifacts) :
          /\ i < j
          /\ uploads[i].ok
          /\ IsChunkedDirWithFallback(RuleOf(i))
          /\ origin[uploads[j].rule] = uploads[i].rule
          /\ PathOf(j) = PathOf(i)
          /\ uploads[j].ok
          /\ origin[r] = uploads[j].rule
          /\ PathOf(i) \in resolved[r].matches
          /\ ~Attempted(r, PathOf(i))

----
\* C3, as stated: a matched file contributes at most one entry to the
\* manifest.
C3_OneEntryPerFile ==
    \A i, j \in Attempts :
        (uploads[i].ok /\ uploads[j].ok /\ PathOf(i) = PathOf(j)) => i = j

\* C3, amended: a matched file contributes at most one entry per display
\* name, so at most three (its basename, and the basename prefixed
\* '_chunked_' and '_chunked_dir_'); no display name is entered twice, and
\* the entries are exactly the names of the uploads that succeeded.
C3_OneEntryPerDisplayName ==
    /\ \A i, j \in Attempts :
          (uploads[i].ok /\ uploads[j].ok /\ uploads[i].name = uploads[j].name)
              => i = j
    /\ \A i \in Attempts :
          uploads[i].name \in
              { basename(PathOf(i)),
                <<"_chunked_">> \o basename(PathOf(i)),
                <<"_chunked_", "dir_">> \o basename(PathOf(i)) }
    /\ DOMAIN file_digests = { uploads[i].name : i \in { k \in Attempts : uploads[k].ok } }
    /\ \A i \in Attempts :
          Cardinality({ j \in Attempts : uploads[j].ok /\ PathOf(j) = PathOf(i) }) <= 3

\* A run in which one file got three entries.
C3_Witness ==
    /\ pc = "done"
    /\ \E i, j, k \in Attempts :
          /\ i < j /\ j < k
          /\ PathOf(i) = PathOf(j) /\ PathOf(j) = PathOf(k)
          /\ uploads[i].ok /\ uploads[j].ok /\ uploads[k].ok
          /\ {uploads[i].name, uploads[j].name, uploads[k].name}
                \subseteq DOMAIN digests_file[1].files

----
----
\* C5, as stated: the working list ends with its original length plus the
\* number of its original rules with chunk and chunk_fallback.
C5_OneFallbackPerRule ==
    InLoop =>
        Len(all_artifacts) = EntryCount
            + Cardinality({ k \in 1..EntryCount :
                  /\ heap[all_artifacts[k]].chunk
                  /\ heap[all_artifacts[k]].chunk_fallback })

\* C5, amended: every entry of the working list with chunk and
\* chunk_fallback, appended ones included, gets exactly one fallback appended
\* (a copy with unzip=false if it has unzip, with chunk=false otherwise) and
\* no other entry gets one; so an original rule with unzip, chunk and
\* chunk_fallback gives two appended rules, and the list ends with its
\* original length plus one per original rule with chunk and chunk_fallback
\* plus one more per such rule with unzip.
C5_FallbackChain ==
    /\ pc = "add_fallback" =>
          \A k \in 1..Len(all_artifacts) :
              origin[k] # 0 =>
                  /\ origin[k] < k
                  /\ heap[all_artifacts[origin[k]]].chunk
                  /\ heap[all_artifacts[origin[k]]].chunk_fallback
                  /\ heap[all_artifacts[k]] =
                        IF heap[all_artifacts[origin[k]]].unzip
                        THEN [heap[all_artifacts[origin[k]]] EXCEPT !.unzip = FALSE]
                        ELSE [heap[all_artifacts[origin[k]]] EXCEPT !.chunk = FALSE]
    /\ InLoop =>
          /\ \A k \in 1..Len(all_artifacts) :
                Cardinality({ m \in 1..Len(all_artifacts) : origin[m] = k })
                    = IF /\ heap[all_artifacts[k]].chunk
                         /\ heap[all_artifacts[k]].chunk_fallback
                      THEN 1 ELSE 0
          /\ Len(all_artifacts) = EntryCount
                + Cardinality({ k \in 1..EntryCount :
                      /\ heap[all_artifacts[k]].chunk
                      /\ heap[all_artifacts[k]].chunk_fallback })
                + Cardinality({ k \in 1..EntryCount :
                      IsChunkedDirWithFallback(heap[all_artifacts[k]]) })

\* A working list, fallbacks added, in which a rule with unzip, chunk and
\* chunk_fallback has a fallback that has a fallback.
C5_Witness ==
    /\ InLoop
    /\ \E k \in 1..EntryCount : \E m, n \in 1..Len(all_artifacts) :
          /\ IsChunkedDirWithFallback(heap[all_artifacts[k]])
          /\ origin[m] = k
          /\ origin[n] = m
          /\ ~heap[all_artifacts[n]].chunk

----
\* C6: the digest the client returned for an upload that succeeded is, from
\* then on, the entry of its display name, and it is the entry written to
\* the manifest.
C6_DigestRecordedVerbatim ==
    /\ \A i \in Attempts :
          uploads[i].ok =>
              /\ uploads[i].name \in DOMAIN file_digests
              /\ file_digests[uploads[i].name] = DigestOf(uploads[i].cmd)
    /\ pc = "done" =>
          /\ Len(digests_file) = 1
          /\ digests_file[1].files = file_digests

\* A run in which an upload succeeded, another file of the same display name
\* was matched, and the manifest holds the digest of the first.
C6_Witness ==
    /\ pc = "done"
    /\ \E i \in Attempts :
          /\ uploads[i].ok
          /\ digests_file[1].files[uploads[i].name] = DigestOf(uploads[i].cmd)
          /\ \E r \in 1..Len(resolved) : \E f \in resolved[r].matches :
                /\ f # PathOf(i)
                /\ NameAt(r, f) = uploads[i].name
                /\ r >= uploads[i].rule

----
\* C7: for an entry of the working list whose pattern matches no file below
\* the distribution directory the client is never invoked, the loop goes on
\* to the next entry, and every entry of the manifest comes from the upload
\* of a file that exists and that its rule's pattern matches.
C7_NoMatchNoUpload ==
    /\ \A r \in 1..Len(resolved) :
          NoFileMatches(r) =>
              /\ \A i \in Attempts : uploads[i].rule # r
              /\ (pc = "for_file" /\ art_i = r) => (pending = {} /\ ENABLED EndArtifact)
    /\ error = "none" \/ uploads = <<>>
    /\ pc = "done" =>
          /\ Len(resolved) = Len(all_artifacts)
          /\ \A n \in DOMAIN digests_file[1].files :
                \E i \in Attempts :
                    /\ uploads[i].name = n
                    /\ ~NoFileMatches(uploads[i].rule)
                    /\ \E f \in files : PathOf(i) = dist_dir \o f

\* A run in which an entry matched nothing and a later entry uploaded a file.
C7_Witness ==
    /\ pc = "done"
    /\ \E r \in 1..Len(resolved) : \E i \in Attempts :
          /\ NoFileMatches(r)
          /\ r < uploads[i].rule
          /\ uploads[i].ok
          /\ uploads[i].name \in DOMAIN digests_file[1].files

----
\* C8: with a client version below (1, 0) no upload command carries
\* -dump-file-details, no result has file details, no details record is kept
\* or written, and an upload that succeeds is recorded all the same.
C8_NoDetailsBelowVersion1 ==
    cas_info.client_version[1] < 1 =>
        /\ \A i \in Attempts :
              /\ ~uploads[i].cmd.dump_file_details
              /\ uploads[i].result.content_details = <<>>
              /\ uploads[i].ok =>
                    /\ ~uploads[i].result.none
                    /\ uploads[i].name \in DOMAIN file_digests
        /\ content_details = <<>>
        /\ pc = "done" =>
              /\ details_file = << <<>> >>
              /\ digests_file[1].files = file_digests

\* A run after a failed version probe in which an upload succeeded.
C8_Witness ==
    /\ pc = "done"
    /\ cas_info.client_version = <<0, 0>>
    /\ \E i \in Attempts :
          /\ uploads[i].ok
          /\ uploads[i].name \in DOMAIN digests_file[1].files

----
\* C9, as stated: with one of the three variables unset the run neither
\* returns normally nor starts an external process nor writes a manifest.
C9_UnsetVariableIsFatalBeforeAnyProcess ==
    (\E k \in EnvKeys : environ[k] = "unset") =>
        /\ pc \notin {"returned", "done"}
        /\ started = {}
        /\ uploads = <<>>
        /\ digests_file = <<>>

\* C9, amended: with DIST_DIR unset (or empty) the run ends with the fatal
\* error for it before any external process is started.  With RBE_instance
\* or RBE_service unset (or empty) and DIST_DIR set, the prebuilt
\* content_uploader is looked up and run first and the run returns normally
\* if it exits 0; otherwise the run ends with a fatal error (the variable's,
\* or the missing client's) before the CAS client is run at all, for its
\* version or for an upload, and before a manifest is written.
C9_FatalBeforeClient ==
    /\ environ["DIST_DIR"] # "set" =>
          /\ pc \in {"main", "fatal"}
          /\ pc = "fatal" => error = "env DIST_DIR"
          /\ started = {}
          /\ uploads = <<>>
          /\ digests_file = <<>> /\ details_file = <<>>
    /\ (environ["DIST_DIR"] = "set"
            /\ (environ["RBE_instance"] # "set" \/ environ["RBE_service"] # "set")) =>
          /\ pc \in {"main", "prebuilt", "parse", "init_cas", "fatal", "returned"}
          /\ pc = "fatal" =>
                error \in {"no casuploader",
                           IF environ["RBE_instance"] # "set"
                           THEN "env RBE_instance" ELSE "env RBE_service"}
          /\ pc = "returned" => started = {"content_uploader"}
          /\ started \subseteq {"content_uploader"}
          /\ uploads = <<>>
          /\ digests_file = <<>> /\ details_file = <<>>

\* A run that ended with the fatal error for RBE_service after the prebuilt
\* content_uploader had been run and had failed.
C9_Witness ==
    /\ pc = "fatal"
    /\ error = "env RBE_service"
    /\ environ["RBE_service"] = "unset"
    /\ started = {"content_uploader"}

----
\* C10: the rules main adds to the catalog are those of the valid names, in
\* the order given, after the static catalog; an invalid name is dropped and
\* ends neither the parse nor the run.
C10_ValidExperimentsAppended ==
    /\ pc = "init_cas" =>
          /\ error = "none"
          /\ Len(additional_artifacts) = Len(ValidNames)
          /\ \A i \in 1..Len(ValidNames) :
                /\ additional_artifacts[i] > Len(ARTIFACTS)
                /\ heap[additional_artifacts[i]]
                      = EXPERIMENT_ARTIFACT_CONFIGS[ValidNames[i]]
    /\ pc \in {"add_fallback", "for_artifact", "for_file", "done"} =>
          /\ Len(additional_artifacts) = Len(ValidNames)
          /\ Len(all_artifacts) >= EntryCount
          /\ SubSeq(all_artifacts, 1, EntryCount) = ARTIFACTS \o additional_artifacts
          /\ \A i \in 1..Len(ARTIFACTS) : all_artifacts[i] = i
    /\ pc = "fatal" =>
          error \in {"env DIST_DIR", "env RBE_instance", "env RBE_service",
                     "no casuploader"}

\* A run with an invalid name before a valid one, in which the valid name's
\* rule uploaded a file.
C10_Witness ==
    /\ pc = "done"
    /\ argv = <<"bogus", "device_image_proguard_dict">>
    /\ \E i \in Attempts :
          /\ all_artifacts[uploads[i].rule] = Len(ARTIFACTS) + 1
          /\ uploads[i].ok

----
\* C11: in a run that reaches the upload loop, neither output file is written
\* while the loop over the working list runs; the loop always has a next step
\* until it is over; both files are then written, once each, after the last
\* match of the last entry has been dealt with, with the mapping and the
\* records accumulated by then, and no upload follows the writes.
C11_OutputsWrittenOnceAtEnd ==
    /\ pc \in {"upload_all", "add_fallback", "for_artifact", "for_file"} =>
          /\ digests_file = <<>>
          /\ details_file = <<>>
          /\ error = "none"
          /\ ENABLED Next
    /\ (digests_file # <<>> \/ details_file # <<>>) =>
          /\ pc = "done"
          /\ Len(digests_file) = 1
          /\ Len(details_file) = 1
          /\ art_i = Len(all_artifacts) + 1
          /\ pending = {}
          /\ AllMatchesVisited
          /\ \A i \in Attempts : uploads[i].rule <= Len(all_artifacts)
          /\ digests_file[1].files = file_digests
          /\ details_file[1] = content_details
          /\ ~ENABLED UploadFile
          /\ ~ENABLED OutputResults
    /\ pc = "done" => (Len(digests_file) = 1 /\ Len(details_file) = 1)

\* A run whose two files were written after uploads by two entries of the
\* working list, the last entry's included, with a details record kept.
C11_Witness ==
    /\ pc = "done"
    /\ Len(digests_file) = 1
    /\ Len(details_file) = 1
    /\ details_file[1] # <<>>
    /\ Len(all_artifacts) >= 2
    /\ \E i, j \in Attempts :
          /\ uploads[i].rule < uploads[j].rule
          /\ uploads[j].rule = Len(all_artifacts)
          /\ uploads[j].ok

----
\* C12, as stated: a match of the current entry, chunked or not, whose
\* display name is in file_digests or whose basename is on skip_files is
\* passed over.
C12_SkippedByNameOrBasename ==
    pc = "for_file" =>
        \A f \in pending :
            ( \/ NameAt(art_i, f) \in DOMAIN file_digests
              \/ InSeq(basename(f), skip_files) )
            => Skipped(NameAt(art_i, f), file_digests, skip_files)

\* C12, amended: a match is passed over, with no client run, exactly when its
\* display name is a key of file_digests or equals an entry of skip_files.
\* For an entry without chunk the display name is the basename, so it never
\* uploads a file whose basename an earlier upload put on skip_files.  An
\* entry with chunk is not stopped by the basename being on skip_files: it
\* uploads the match unless the prefixed name is in file_digests or equals
\* an entry of skip_files.
C12_SkippedByDisplayName ==
    /\ pc = "for_file" =>
          /\ (\E f \in pending :
                  \/ NameAt(art_i, f) \in DOMAIN file_digests
                  \/ InSeq(NameAt(art_i, f), skip_files)) <=> ENABLED SkipFile
          /\ (\E f \in pending :
                  /\ NameAt(art_i, f) \notin DOMAIN file_digests
                  /\ ~InSeq(NameAt(art_i, f), skip_files)) <=> ENABLED UploadFile
    /\ outcome # NoOutcome =>
          /\ uploads # <<>>
          /\ ~InSeq(uploads[Len(uploads)].name, skip_files)
    /\ \A i, j \in Attempts :
          (i < j /\ uploads[i].ok) => uploads[j].name # uploads[i].name
    /\ \A i, j \in Attempts :
          ( /\ i < j
            /\ uploads[i].ok
            /\ RuleOf(i).chunk
            /\ ~RuleOf(i).chunk_fallback \/ RuleOf(i).unzip
            /\ basename(PathOf(j)) = basename(PathOf(i)) )
          => RuleOf(j).chunk
    /\ \A j \in Attempts :
          uploads[j].name =
              IF ~RuleOf(j).chunk THEN basename(PathOf(j))
              ELSE IF RuleOf(j).unzip
                   THEN <<"_chunked_", "dir_">> \o basename(PathOf(j))
                   ELSE <<"_chunked_">> \o basename(PathOf(j))
    /\ pc = "done" => AllMatchesVisited

\* A run in which an upload put a file's basename on skip_files, a later
\* entry with chunk uploaded the same file all the same, and an entry without
\* chunk matched the file and passed it over for the skip list alone.
C12_Witness ==
    /\ pc = "done"
    /\ \E i, j \in Attempts : \E r \in 1..Len(all_artifacts) :
          /\ i < j
          /\ uploads[i].ok
          /\ InSeq(basename(PathOf(i)), skip_files)
          /\ PathOf(j) = PathOf(i)
          /\ RuleOf(j).chunk
          /\ ~heap[all_artifacts[r]].chunk
          /\ PathOf(i) \in resolved[r].matches
          /\ ~Attempted(r, PathOf(i))
          /\ basename(PathOf(i)) \notin DOMAIN file_digests

----
\* C13, as stated: skip_files has one entry per upload that succeeded under
\* a rule with chunk that does not have both chunk_fallback and unzip, and
\* no other entry.
C13_SkipAddedUnlessFallbackAndUnzip ==
    Len(skip_files) =
        Cardinality({ i \in Attempts :
            /\ uploads[i].ok
            /\ RuleOf(i).chunk
            /\ ~(RuleOf(i).chunk_fallback /\ RuleOf(i).unzip) })

\* C13, amended: after an upload that succeeds the basename of the file is
\* appended to skip_files exactly when the rule has chunk and has unzip or
\* lacks chunk_fallback; skip_files is the list of those basenames in upload
\* order.  Nothing is appended after a failed upload, after an upload
\* without chunk, or after an upload with chunk and chunk_fallback and
\* without unzip; an upload with unzip, chunk and chunk_fallback that
\* succeeds does append.
C13_SkipAddedForChunkedUnzipOrNoFallback ==
    /\ Len(skip_files) = Cardinality(SkipAdders)
    /\ \A i \in SkipAdders : skip_files[SkipRank(i)] = basename(PathOf(i))
    /\ \A i \in Attempts :
          IsChunkedDirWithFallback(RuleOf(i)) /\ uploads[i].ok
              => InSeq(basename(PathOf(i)), skip_files)
    /\ (\A i \in Attempts :
            \/ ~uploads[i].ok
            \/ ~RuleOf(i).chunk
            \/ RuleOf(i).chunk_fallback /\ ~RuleOf(i).unzip)
          => skip_files = <<>>

\* A run in which an upload with unzip, chunk and chunk_fallback succeeded
\* and put its basename on skip_files, and an upload with chunk and
\* chunk_fallback and without unzip, one without chunk and a failed one added
\* nothing.
C13_Witness ==
    /\ pc = "done"
    /\ Len(skip_files) = 1
    /\ \E i, j, k, m \in Attempts :
          /\ uploads[i].ok /\ IsChunkedDirWithFallback(RuleOf(i))
          /\ skip_files[1] = basename(PathOf(i))
          /\ uploads[j].ok
          /\ RuleOf(j).chunk /\ RuleOf(j).chunk_fallback /\ ~RuleOf(j).unzip
          /\ uploads[k].ok /\ ~RuleOf(k).chunk
          /\ ~uploads[m].ok

----
\* C14: uploads are made one at a time in the order of the working list: the
\* log of client runs never goes back to an earlier entry, each upload
\* belongs to the entry and to a match of the entry the loop is at, and an
\* entry is left only when none of its matches is pending.  Every fallback
\* comes after the rule it copies and after all the rules main passed in, so
\* an upload of a file by a fallback never precedes an upload of that file by
\* the rule the fallback comes from.
C14_SequentialInListOrder ==
    /\ \A i, j \in Attempts : i < j => uploads[i].rule <= uploads[j].rule
    /\ \A i \in Attempts :
          /\ uploads[i].rule \in 1..Len(resolved)
          /\ uploads[i].rule <= art_i
          /\ PathOf(i) \in resolved[uploads[i].rule].matches
    /\ pc = "for_file" =>
          /\ art_i = Len(resolved)
          /\ pending \subseteq resolved[art_i].matches
          /\ \A r \in 1..(art_i - 1) : \A f \in resolved[r].matches :
                \/ Attempted(r, f)
                \/ NameAt(r, f) \in DOMAIN file_digests
                \/ InSeq(NameAt(r, f), skip_files)
    /\ Len(uploads) <= Cardinality(UNION { { <<r, f>> : f \in resolved[r].matches } :
                                            r \in 1..Len(resolved) })
    /\ pc \in {"add_fallback", "for_artifact", "for_file", "done"} =>
          /\ Len(origin) = Len(all_artifacts)
          /\ SubSeq(all_artifacts, 1, EntryCount) = ARTIFACTS \o additional_artifacts
          /\ \A k \in 1..Len(all_artifacts) :
                IF k <= EntryCount THEN origin[k] = 0
                ELSE origin[k] \in 1..(k - 1)
    /\ \A i, j \in Attempts :
          ( /\ PathOf(i) = PathOf(j)
            /\ \/ origin[uploads[j].rule] = uploads[i].rule
               \/ /\ origin[uploads[j].rule] # 0
                  /\ origin[origin[uploads[j].rule]] = uploads[i].rule )
          => i < j

\* A run in which a rule uploaded a file, its fallback uploaded the same
\* file later, and an entry between the two in the list uploaded as well.
C14_Witness ==
    /\ pc = "done"
    /\ \E i, j, k \in Attempts :
          /\ i < k /\ k < j
          /\ PathOf(i) = PathOf(j)
          /\ origin[uploads[j].rule] = uploads[i].rule
          /\ uploads[i].rule < uploads[k].rule
          /\ uploads[k].rule < uploads[j].rule

----
\* C15: when the client was asked for file details, exits 0 and leaves a
\* digest and details that do not parse, _upload returns a result with the
\* digest and without details: the digest is entered under the display name,
\* no details record is added for that name, and the loop goes on.  No entry
\* of the manifest whose upload came back without details has a record.
C15_UnparsableDetailsKeepDigest ==
    /\ ( /\ outcome.exit = "zero"
         /\ outcome.digest # <<>>
         /\ outcome.details = "unparsable" ) =>
          /\ uploads # <<>>
          /\ uploads[Len(uploads)].cmd.dump_file_details
          /\ ~uploads[Len(uploads)].result.none
          /\ uploads[Len(uploads)].result.digest = outcome.digest
          /\ uploads[Len(uploads)].result.content_details = <<>>
          /\ uploads[Len(uploads)].name \in DOMAIN file_digests
          /\ file_digests[uploads[Len(uploads)].name] = outcome.digest
          /\ \A k \in 1..Len(content_details) :
                content_details[k].artifact # uploads[Len(uploads)].name
          /\ pc = "for_file"
          /\ error = "none"
          /\ ENABLED Next
    /\ \A i \in Attempts :
          (uploads[i].ok /\ uploads[i].result.content_details = <<>>) =>
              /\ uploads[i].name \in DOMAIN file_digests
              /\ \A k \in 1..Len(content_details) :
                    content_details[k].artifact # uploads[i].name
    /\ pc = "done" =>
          /\ digests_file[1].files = file_digests
          /\ details_file[1] = content_details

\* The step after an upload whose client exited 0 with a digest and details
\* that do not parse: the name is in file_digests, the one details record
\* kept is that of an earlier upload, and the loop is still running.
C15_Witness ==
    /\ pc = "for_file"
    /\ outcome.exit = "zero"
    /\ outcome.digest # <<>>
    /\ outcome.details = "unparsable"
    /\ Len(uploads) >= 2
    /\ uploads[Len(uploads)].name \in DOMAIN file_digests
    /\ Len(content_details) = 1
    /\ \E j \in 1..(Len(uploads) - 1) :
          /\ uploads[j].result.content_details # <<>>
          /\ content_details[1].artifact = uploads[j].name
    /\ pending # {}

----
\* C16: _add_fallback_artifacts ends although it appends to the list it
\* walks: while it runs its position is within the list or one past it and
\* it has a next step, the list never holds more than two appended entries
\* for an entry main passed in, and once it has returned every entry with
\* chunk and chunk_fallback has its fallback and the last entry of every
\* chain of fallbacks has chunk=false, so that nothing is left to append.
C16_FallbackLoopTerminates ==
    /\ pc = "add_fallback" =>
          /\ fb_i \in 1..(Len(all_artifacts) + 1)
          /\ fb_i <= 3 * EntryCount + 1
          /\ ENABLED (AddFallback \/ AddFallbackDone)
          /\ \A m \in 1..Len(all_artifacts) : origin[m] # 0 => origin[m] < fb_i
    /\ pc \in {"add_fallback", "for_artifact", "for_file", "done"} =>
          /\ Len(all_artifacts) <= 3 * EntryCount
          /\ \A k \in 1..EntryCount :
                /\ origin[k] = 0
                /\ Cardinality(AppendedFor(k)) <= 2
                /\ ~(heap[all_artifacts[k]].chunk /\ heap[all_artifacts[k]].chunk_fallback)
                      => AppendedFor(k) = {}
          /\ \A m \in 1..Len(all_artifacts) : RootOf(m) \in 1..EntryCount
    /\ InLoop =>
          /\ fb_i = Len(all_artifacts) + 1
          /\ \A m \in 1..Len(all_artifacts) :
                IF \E n \in 1..Len(all_artifacts) : origin[n] = m
                THEN heap[all_artifacts[m]].chunk /\ heap[all_artifacts[m]].chunk_fallback
                ELSE /\ ~(heap[all_artifacts[m]].chunk
                            /\ heap[all_artifacts[m]].chunk_fallback)
                     /\ origin[m] # 0 => ~heap[all_artifacts[m]].chunk

\* The loop over the working list about to begin on a list of two entries
\* from main, one with two appended entries, the last of them without chunk,
\* and one with none.
C16_Witness ==
    /\ pc = "for_artifact"
    /\ art_i = 1
    /\ EntryCount = 2
    /\ Len(all_artifacts) = 4
    /\ \E k, l \in 1..EntryCount :
          /\ Cardinality(AppendedFor(k)) = 2
          /\ AppendedFor(l) = {}
          /\ ~heap[all_artifacts[4]].chunk
          /\ origin[origin[4]] = k

----
\* C17: at every point of the run every name with a record in
\* content_details has a digest in file_digests, no name has two records,
\* every record is that of an upload that succeeded and came back with
\* details, and an upload that failed leaves the records as they were; the
\* same holds of the two files as written.
C17_DetailsOnlyForRecordedDigests ==
    /\ \A k \in 1..Len(content_details) :
          /\ content_details[k].artifact \in DOMAIN file_digests
          /\ file_digests[content_details[k].artifact] # <<>>
          /\ \A l \in 1..Len(content_details) :
                content_details[l].artifact = content_details[k].artifact => l = k
          /\ \E i \in Attempts :
                /\ uploads[i].ok
                /\ uploads[i].name = content_details[k].artifact
                /\ uploads[i].result.content_details = content_details[k].details
                /\ content_details[k].details # <<>>
    /\ Len(content_details) =
          Cardinality({ i \in Attempts :
              uploads[i].ok /\ uploads[i].cmd.dump_file_details
                  /\ uploads[i].result.content_details # <<>> })
    /\ \A i \in Attempts :
          ~uploads[i].ok =>
              /\ uploads[i].result.none
              /\ uploads[i].result.content_details = <<>>
    /\ ClientFailed(outcome) =>
          \A k \in 1..Len(content_details) :
              content_details[k].artifact # uploads[Len(uploads)].name
    /\ pc = "done" =>
          \A k \in 1..Len(details_file[1]) :
              details_file[1][k].artifact \in DOMAIN digests_file[1].files

\* The step after an upload whose client exited 0 with details written and
\* an empty digest file: the name has neither digest nor record, and the
\* record of an earlier upload is kept.
C17_Witness ==
    /\ pc = "for_file"
    /\ outcome.exit = "zero"
    /\ outcome.digest = <<>>
    /\ outcome.details = "records"
    /\ uploads[Len(uploads)].name \notin DOMAIN file_digests
    /\ Len(content_details) = 1
    /\ content_details[1].artifact \in DOMAIN file_digests
    /\ content_details[1].artifact # uploads[Len(uploads)].name

----
\* C18: every entry of the working list is globbed with the pattern its rule
\* was configured with (a fallback with that of the rule it was copied from)
\* and keeps its flags, whatever was uploaded before it.
C18_ResolvedWithConfiguredPattern ==
    /\ \A r \in 1..Len(resolved) :
          resolved[r].source_path = configured[all_artifacts[RootOf(r)]].source_path
    /\ pc \in {"add_fallback", "for_artifact", "for_file", "done"} =>
          \A k \in 1..EntryCount :
              /\ heap[all_artifacts[k]].unzip = configured[all_artifacts[k]].unzip
              /\ heap[all_artifacts[k]].chunk = configured[all_artifacts[k]].chunk
              /\ heap[all_artifacts[k]].chunk_fallback
                    = configured[all_artifacts[k]].chunk_fallback

----
\* C19: names are told apart by the last component of the path alone: once
\* a file has been uploaded with success, no file in another directory with
\* the same last component is uploaded under the same prefix, by the same
\* entry or a later one; the name, which has no directory in it, has one
\* entry and its digest is that of the first file's upload.
C19_DedupByBasename ==
    /\ \A i, j \in Attempts :
          ( /\ uploads[i].ok
            /\ Homonyms(PathOf(i), PathOf(j))
            /\ SameMode(RuleOf(i), RuleOf(j)) )
          => /\ j < i
             /\ ~uploads[j].ok
             /\ uploads[j].name = uploads[i].name
    /\ \A i \in Attempts :
          uploads[i].ok =>
              /\ SubSeq(uploads[i].name,
                        Len(uploads[i].name) - Len(PathOf(i)[Len(PathOf(i))]) + 1,
                        Len(uploads[i].name)) = PathOf(i)[Len(PathOf(i))]
              /\ Len(uploads[i].name) <= Len(PathOf(i)[Len(PathOf(i))]) + 2
              /\ uploads[i].name \in DOMAIN file_digests
              /\ file_digests[uploads[i].name] = DigestOf(uploads[i].cmd)
              /\ uploads[i].cmd.path = PathOf(i)
    /\ pc = "done" =>
          /\ digests_file[1].files = file_digests
          /\ \A i \in Attempts : \A r \in 1..Len(resolved) :
               \A f \in resolved[r].matches :
                  ( /\ uploads[i].ok
                    /\ Homonyms(PathOf(i), f)
                    /\ SameMode(RuleOf(i), heap[all_artifacts[r]])
                    /\ r >= uploads[i].rule )
                  => \A j \in Attempts :
                        (uploads[j].rule = r /\ PathOf(j) = f) => j < i

\* A run in which an entry matched two files of the same basename in two
\* directories, uploaded one, never ran the client for the other, and wrote
\* the first one's digest under the name.
C19_Witness ==
    /\ pc = "done"
    /\ \E i \in Attempts : \E f \in resolved[uploads[i].rule].matches :
          /\ uploads[i].ok
          /\ Homonyms(PathOf(i), f)
          /\ \A j \in Attempts : PathOf(j) # f
          /\ digests_file[1].files[uploads[i].name] = DigestOf(uploads[i].cmd)
          /\ DigestOf(uploads[i].cmd)[2] = PathOf(i)

----
\* C20: when the prebuilt content_uploader is found and exits 0, main
\* returns: the CAS client is never looked up or run and no file is written.
\* When it is not found, or is run and exits non-zero, times out or raises,
\* main goes on to its own path, the same in each of these cases: it parses
\* the names, looks up and probes the client, uploads, and writes the
\* manifest once.
C20_DelegationAllOrNothing ==
    /\ wrapper = "zero" <=> pc = "returned"
    /\ pc = "returned" =>
          /\ uploader = "found"
          /\ started = {"content_uploader"}
          /\ cas_info = NoCasInfo
          /\ all_artifacts = <<>>
          /\ uploads = <<>>
          /\ digests_file = <<>> /\ details_file = <<>>
          /\ error = "none"
          /\ ~ENABLED Next
    /\ wrapper \in {"nonzero", "timeout", "exception"} =>
          /\ uploader = "found"
          /\ pc = "parse"
    /\ uploader = "not_found" => "content_uploader" \notin started
    /\ pc = "parse" =>
          /\ uploader = "not_found" \/ wrapper \in {"nonzero", "timeout", "exception"}
          /\ started \subseteq {"content_uploader"}
          /\ uploads = <<>>
          /\ error = "none"
          /\ ENABLED ParseAdditionalArtifacts
    /\ pc = "init_cas" => ENABLED InitCasInfo
    /\ pc \in {"upload_all", "add_fallback", "for_artifact", "for_file", "done"} =>
          /\ uploader \in {"not_found", "found"}
          /\ "casuploader -version" \in started
          /\ cas_info # NoCasInfo
          /\ ENABLED Next \/ pc = "done"
    /\ pc = "done" => (Len(digests_file) = 1 /\ Len(details_file) = 1)

\* A run in which the prebuilt content_uploader was run and failed, and main
\* then probed the client, uploaded a file and wrote the manifest.
C20_Witness ==
    /\ pc = "done"
    /\ uploader = "found"
    /\ started = {"content_uploader", "casuploader -version"}
    /\ \E i \in Attempts : uploads[i].ok
    /\ Len(digests_file) = 1
    /\ digests_file[1].files # EmptyMap

====
